---- MODULE Spec2Model ----
(***************************************************************************)
(* Model of the /convert request pipeline of src/app.py (the Bloom Fresh   *)
(* GLB to STL conversion microservice).                                    *)
(*                                                                         *)
(* One request is a small process: it is received (format check, scratch   *)
(* workspace, cleanup task registration), then runs download, empty-file   *)
(* check, load/process, export and, when persistence is requested, the two *)
(* uploads; it produces exactly one response, after which the framework    *)
(* runs the background tasks attached to that response.  The download is   *)
(* two steps, around its await; the cleanup task runs in a worker thread   *)
(* and removes the workspace entry by entry.  The collaborators (httpx,    *)
(* trimesh, Firebase storage, the file system's rmtree) are the            *)
(* environment: each call's outcome is a nondeterministic choice.          *)
(***************************************************************************)
EXTENDS Integers, Sequences, FiniteSets, TLC

\* ---------------------------------------------------------------- bounds
\* Number of request slots (requests that may be in flight together).
NumReqs == 2
\* Largest number of geometries a parsed scene may hold (0..MaxGeoms).
MaxGeoms == 2

Reqs == 1..NumReqs
Ids == 1..NumReqs

\* ------------------------------------------------------- request values
\* output_format is a str: a sequence of characters.
STL == <<"s", "t", "l">>
OBJ == <<"o", "b", "j">>

Formats ==
    { <<"s", "t", "l">>, <<"S", "T", "L">>, <<"S", "t", "l">>,
      <<"o", "b", "j">>, <<"O", "B", "J">>, <<"p", "l", "y">>, <<>> }

\* str.lower() on one character of the alphabet used by Formats.
LowerChar(c) ==
    CASE c = "S" -> "s"
      [] c = "T" -> "t"
      [] c = "L" -> "l"
      [] c = "O" -> "o"
      [] c = "B" -> "b"
      [] c = "J" -> "j"
      [] OTHER -> c

\* str.lower()
Lower(s) == [i \in DOMAIN s |-> LowerChar(s[i])]

\* Optional[bool] fields of ConversionRequest: JSON true, false or null.
Flags == {"true", "false", "null"}

\* Python truthiness of an Optional[bool]: None and False are falsy.
Truthy(v) == v = "true"

\* ConversionRequest without glb_url (what the URL serves is the
\* environment's choice at download time).
ConversionRequest ==
    [output_format : Formats, optimize_mesh : Flags, store_in_firebase : Flags]

\* The request bodies used when several requests are in flight together:
\* a supported format with persistence (every stage runs) and a rejected
\* one.  Direct delivery differs only in leaving out the two uploads.
ConcurrentRequests ==
    [output_format : {STL, <<"O", "B", "J">>}, optimize_mesh : {"true"},
     store_in_firebase : {"true"}]

NoRequest ==
    [output_format |-> <<>>, optimize_mesh |-> "null", store_in_firebase |-> "null"]

\* ----------------------------------------------------------- exceptions
Exc(type, status, detail) == [type |-> type, status |-> status, detail |-> detail]

HTTPException(status, detail) == Exc("HTTPException", status, detail)

\* httpx.TimeoutException and httpx.ConnectError derive from
\* httpx.RequestError; httpx.HTTPStatusError (raise_for_status) does not.
IsRequestError(e) == e.type \in {"TimeoutException", "ConnectError"}

\* The 400 raised by the format check.
FormatRejection == HTTPException(400, "This service only supports STL conversion.")

\* download_file as it would be with the timeout given its own status.
DownloadHandlerGatewayTimeout(e) ==
    IF e.type = "TimeoutException"
    THEN HTTPException(504, "Timed out downloading GLB file from URL")
    ELSE IF IsRequestError(e)
         THEN HTTPException(500, "Failed to download GLB file from URL")
         ELSE HTTPException(500, "An unexpected error occurred while fetching the GLB")

\* download_file as it would be with fetch failures reported as 502.
DownloadHandlerBadGateway(e) ==
    IF e.type = "TimeoutException"
    THEN HTTPException(500, "Failed to download GLB file from URL")
    ELSE HTTPException(502, "Failed to download GLB file from URL")

\* The two except clauses of download_file.
DownloadHandler(e) ==
    IF IsRequestError(e)
    THEN HTTPException(500, "Failed to download GLB file from URL")
    ELSE HTTPException(500, "An unexpected error occurred while fetching the GLB")

\* The raise of the empty-file check.
EmptyFileError ==
    HTTPException(500, "Failed to download GLB file or file is empty.")

\* The except clause of process_mesh.
ProcessMeshHandler(e) == HTTPException(500, "Failed to process mesh")

\* The inner handler as it would be if it let an HTTPException through.
LoadHandlerReraise(e) ==
    IF e.type = "HTTPException" THEN e ELSE HTTPException(500, "Failed to process GLB model")

\* The except clause around load_mesh / process_mesh in the endpoint; it
\* catches Exception, and so also the HTTPException process_mesh raises.
LoadHandler(e) == HTTPException(500, "Failed to process GLB model")

\* The except clause around the export in the endpoint.
ExportHandler(e) == HTTPException(500, "Failed to export model to STL")

\* The except clause of upload_to_firebase.
UploadHandler(e, file_type) ==
    IF file_type = "glb"
    THEN HTTPException(500, "Failed to upload glb to Firebase")
    ELSE HTTPException(500, "Failed to upload stl to Firebase")

\* The endpoint's outer handlers: an HTTPException is re-raised as it is,
\* anything else becomes a 500.
OuterHandler(e) ==
    IF e.type = "HTTPException"
    THEN e
    ELSE HTTPException(500, "An internal server error occurred")

Last(s) == s[Len(s)]

\* ---------------------------------------------------------- file system
\* A scratch workspace is the directory TEMP_DIR/<unique_id>; a file in it
\* is named by its directory and its base name.
FilePath(id, kind, ext) == [dir |-> id, base |-> <<kind, id, ext>>]

input_glb_path(id) == FilePath(id, "input", "glb")

output_file_path(id) == FilePath(id, "output", "stl")

\* The directory itself, as an entry of a request's access log.
DirPath(id) == [dir |-> id, base |-> <<>>]

\* The cleanup task as it would be if it were given TEMP_DIR itself.
CleanupTaskAll(id) == Ids

\* The argument of the cleanup task: [temp_subdir].
CleanupTask(id) == {id}

\* uuid.uuid4(): a value that was not returned before (the least unused
\* identifier stands for any fresh one).
uuid4(used) == CHOOSE i \in Ids \ used : \A j \in Ids \ used : i <= j

\* ------------------------------------------------------- object storage
\* blob_name = f"{file_type}/{unique_id}/{os.path.basename(file_path)}"
BlobName(file_path, file_type, id) == <<file_type, id, file_path.base>>

\* blob.generate_signed_url(...)
SignedUrl(blob) == <<"signed", blob>>

NoUrl == <<>>

\* ------------------------------------------------------------ responses
NoPath == [dir |-> 0, base |-> <<>>]

Response(status, kind, detail, path, dl, glb, stl, background) ==
    [status |-> status, kind |-> kind, detail |-> detail, path |-> path,
     stl_download_url |-> dl, glb_storage_url |-> glb, stl_storage_url |-> stl,
     background |-> background]

NoResponse == Response(0, "none", "", NoPath, NoUrl, NoUrl, NoUrl, <<>>)

\* FastAPI's handler of a raised HTTPException builds a new JSON response
\* from the exception; the endpoint's BackgroundTasks are attached only to
\* a response the endpoint returns, so this one carries none.
ErrorResponse(e) ==
    Response(e.status, "error", e.detail, NoPath, NoUrl, NoUrl, NoUrl, <<>>)

\* The FileResponse of direct delivery, with the endpoint's tasks attached.
FileResponse(path, tasks) ==
    Response(200, "file", "", path, NoUrl, NoUrl, NoUrl, tasks)

\* The ConversionResponse of persisted delivery, with the tasks attached.
ConversionResponse(dl, glb, stl, tasks) ==
    Response(200, "json", "Conversion completed successfully", NoPath, dl, glb, stl, tasks)

\* ------------------------------------------------------------- pipeline
\* The pipeline as it would be without the empty-file check.
NextStageSkipCheck(stage, persist) ==
    CASE stage = "download" -> "load"
      [] stage = "check" -> "load"
      [] stage = "load" -> "export"
      [] stage = "export" -> IF Truthy(persist) THEN "upload_glb" ELSE "responded"
      [] stage = "upload_glb" -> "upload_stl"
      [] OTHER -> "responded"

\* The pipeline as it would be if the uploads did not depend on the flag.
NextStageAlwaysUpload(stage, persist) ==
    CASE stage = "download" -> "check"
      [] stage = "check" -> "load"
      [] stage = "load" -> "export"
      [] stage = "export" -> "upload_glb"
      [] stage = "upload_glb" -> "upload_stl"
      [] OTHER -> "responded"

\* The stage that follows a stage that succeeded; "responded" when the
\* endpoint returns.
NextStage(stage, persist) ==
    CASE stage = "download" -> "check"
      [] stage = "check" -> "load"
      [] stage = "load" -> "export"
      [] stage = "export" -> IF Truthy(persist) THEN "upload_glb" ELSE "responded"
      [] stage = "upload_glb" -> "upload_stl"
      [] OTHER -> "responded"

\* The format check as it would be if obj were let through as well.
FormatSupportedAlsoObj(fmt) == Lower(fmt) \in {STL, OBJ}

\* The format check as it would be if it compared with the wrong format.
FormatSupportedNotObj(fmt) == Lower(fmt) # OBJ

\* The format check of the endpoint's first statement.
FormatSupported(fmt) == Lower(fmt) = STL

\* ---------------------------------------------------------------- state
VARIABLES
    pc,          \* each request's position in the endpoint
    req,         \* the request body
    unique_id,   \* the request's uuid (0: none yet)
    issued,      \* the identifiers uuid4 has returned
    dirs,        \* the workspaces that exist under TEMP_DIR
    files,       \* the files on disk: [path, content], content "empty" or "bytes"
    storage,     \* the blobs in the bucket
    tasks,       \* the request's BackgroundTasks: a sequence of cleanup arguments
    mesh,        \* the endpoint's local variable mesh, once load/process returned
    urls,        \* the locals glb_storage_url and stl_storage_url
    response,    \* the response produced for the request
    sent,        \* the number of responses produced for the request
    stages,      \* log: the stages the request attempted, in order
    exc,         \* log: the exception raised in the failing stage and its re-raises
    touched,     \* log: the paths the request read, wrote or removed
    cleaning     \* the paths the request's running cleanup task has yet to handle

vars == <<pc, req, unique_id, issued, dirs, files, storage, tasks, mesh, urls,
          response, sent, stages, exc, touched, cleaning>>

NoMesh == [kind |-> "none", geometry |-> 0, processed |-> FALSE]

NoUrls == [glb |-> NoUrl, stl |-> NoUrl]

Init ==
    /\ pc = [r \in Reqs |-> "idle"]
    /\ req = [r \in Reqs |-> NoRequest]
    /\ unique_id = [r \in Reqs |-> 0]
    /\ issued = {}
    /\ dirs = {}
    /\ files = {}
    /\ storage = {}
    /\ tasks = [r \in Reqs |-> <<>>]
    /\ mesh = [r \in Reqs |-> NoMesh]
    /\ urls = [r \in Reqs |-> NoUrls]
    /\ response = [r \in Reqs |-> NoResponse]
    /\ sent = [r \in Reqs |-> 0]
    /\ stages = [r \in Reqs |-> <<>>]
    /\ exc = [r \in Reqs |-> <<>>]
    /\ touched = [r \in Reqs |-> {}]
    /\ cleaning = [r \in Reqs |-> {}]

\* The endpoint raises: the exception chain is logged and the framework
\* answers with the error response of the exception that leaves the endpoint.
Raise(r, chain, final) ==
    /\ exc' = [exc EXCEPT ![r] = chain]
    /\ response' = [response EXCEPT ![r] = ErrorResponse(final)]
    /\ sent' = [sent EXCEPT ![r] = @ + 1]
    /\ pc' = [pc EXCEPT ![r] = "responded"]

\* The endpoint returns resp.
Return(r, resp) ==
    /\ response' = [response EXCEPT ![r] = resp]
    /\ sent' = [sent EXCEPT ![r] = @ + 1]
    /\ pc' = [pc EXCEPT ![r] = "responded"]
    /\ exc' = exc

\* A stage succeeded and the endpoint goes on to the next one.
Advance(r, stage) ==
    /\ pc' = [pc EXCEPT ![r] = NextStage(stage, req[r].store_in_firebase)]
    /\ UNCHANGED <<response, sent, exc>>

\* os.path.exists(path) for a file.
Exists(path) == \E f \in files : f.path = path

\* os.path.getsize(path) == 0
IsEmpty(path) == \E f \in files : f.path = path /\ f.content = "empty"

\* A file is written (created or replaced).
WriteFile(path, content) ==
    {f \in files : f.path # path} \cup {[path |-> path, content |-> content]}

\* The entries of workspace d (what rmtree's scan of it finds).
Entries(d) == {f \in files : f.path.dir = d}

\* POST /convert arrives: the format check, then uuid, workspace and the
\* registration of the cleanup task.
Receive(r, inputs) ==
    /\ pc[r] = "idle"
    /\ \E q \in inputs :
        /\ req' = [req EXCEPT ![r] = q]
        /\ IF ~FormatSupported(q.output_format)
           THEN /\ Raise(r, <<FormatRejection>>, FormatRejection)
                /\ UNCHANGED <<unique_id, issued, dirs, tasks, touched>>
           ELSE /\ Ids \ issued # {}
                /\ LET id == uuid4(issued) IN
                    /\ unique_id' = [unique_id EXCEPT ![r] = id]
                    /\ issued' = issued \cup {id}
                    /\ dirs' = dirs \cup {id}
                    /\ tasks' = [tasks EXCEPT ![r] = Append(@, CleanupTask(id))]
                    /\ touched' = [touched EXCEPT ![r] = @ \cup {DirPath(id)}]
                /\ pc' = [pc EXCEPT ![r] = "download"]
                /\ UNCHANGED <<response, sent, exc>>
    /\ UNCHANGED <<cleaning, files, storage, mesh, urls, stages>>

\* ---------------------------------------------------------- environment
\* What client.get(url) does: it times out, fails to connect, or returns a
\* response with a status code and a body.
FetchOutcomes ==
    { [kind |-> "timeout", status |-> 0, content |-> "empty"],
      [kind |-> "connect", status |-> 0, content |-> "empty"],
      [kind |-> "response", status |-> 404, content |-> "bytes"],
      [kind |-> "response", status |-> 200, content |-> "empty"],
      [kind |-> "response", status |-> 200, content |-> "bytes"] }

\* response.raise_for_status() lets only a 2xx response through.
IsSuccess(status) == status >= 200 /\ status < 300

\* The exception client.get / raise_for_status raises for an outcome.
FetchError(out) ==
    CASE out.kind = "timeout" -> Exc("TimeoutException", 0, "timed out")
      [] out.kind = "connect" -> Exc("ConnectError", 0, "connection failed")
      [] OTHER -> Exc("HTTPStatusError", out.status, "bad status")

\* What trimesh.load_mesh returns: it raises, or gives a Scene holding
\* 0..MaxGeoms geometries, or a single Trimesh.
LoadOutcomes ==
    { [kind |-> "raise", geometry |-> 0, processed |-> FALSE],
      [kind |-> "Trimesh", geometry |-> 1, processed |-> FALSE] }
    \cup { [kind |-> "Scene", geometry |-> n, processed |-> FALSE] : n \in 0..MaxGeoms }

EmptySceneError == Exc("ValueError", 0, "GLB scene contains no geometry to convert.")

\* process_mesh(mesh, optimize): the exception chain it ends with (empty
\* when it returns) and the mesh it returns.  passes_ok: whether the
\* library's cleanup passes run without raising.
process_mesh(m, optimize, passes_ok) ==
    IF m.kind = "Scene" /\ m.geometry = 0
    THEN [chain |-> <<EmptySceneError, ProcessMeshHandler(EmptySceneError)>>, mesh |-> m]
    ELSE LET flat == [kind |-> "Trimesh", geometry |-> 1, processed |-> FALSE]
             err == Exc("Exception", 0, "mesh cleanup failed")
         IN IF Truthy(optimize)
            THEN IF passes_ok
                 THEN [chain |-> <<>>, mesh |-> [flat EXCEPT !.processed = TRUE]]
                 ELSE [chain |-> <<err, ProcessMeshHandler(err)>>, mesh |-> flat]
            ELSE [chain |-> <<>>, mesh |-> flat]

\* ---------------------------------------------------------------- stages
\* 1. download_file(glb_url, input_glb_path), up to its await: the client
\* is opened and the GET is sent; the endpoint is suspended in
\* `await client.get(url)` and other requests run meanwhile.
DownloadStart(r) ==
    /\ pc[r] = "download"
    /\ pc' = [pc EXCEPT ![r] = "fetching"]
    /\ stages' = [stages EXCEPT ![r] = Append(@, "download")]
    /\ UNCHANGED <<cleaning, req, unique_id, issued, dirs, files, storage, tasks, mesh, urls,
                   response, sent, exc, touched>>

\* download_file resumes with the outcome of the GET: raise_for_status,
\* the write of the body to the destination, or one of the two handlers.
DownloadFinish(r) ==
    /\ pc[r] = "fetching"
    /\ \E out \in FetchOutcomes :
        IF out.kind = "response" /\ IsSuccess(out.status) /\ unique_id[r] \in dirs
        THEN /\ files' = WriteFile(input_glb_path(unique_id[r]), out.content)
             /\ touched' = [touched EXCEPT ![r] = @ \cup {input_glb_path(unique_id[r])}]
             /\ Advance(r, "download")
        ELSE /\ LET e == IF out.kind = "response" /\ IsSuccess(out.status)
                         THEN Exc("OSError", 0, "cannot open destination")
                         ELSE FetchError(out)
                    h == DownloadHandler(e)
                IN Raise(r, <<e, h>>, OuterHandler(h))
             /\ UNCHANGED <<files, touched>>
    /\ UNCHANGED <<cleaning, req, unique_id, issued, dirs, storage, tasks, mesh, urls, stages>>

\* The empty-file check after the download.
CheckFile(r) ==
    /\ pc[r] = "check"
    /\ stages' = [stages EXCEPT ![r] = Append(@, "check")]
    /\ touched' = [touched EXCEPT ![r] = @ \cup {input_glb_path(unique_id[r])}]
    /\ IF ~Exists(input_glb_path(unique_id[r])) \/ IsEmpty(input_glb_path(unique_id[r]))
       THEN Raise(r, <<EmptyFileError>>, OuterHandler(EmptyFileError))
       ELSE Advance(r, "check")
    /\ UNCHANGED <<cleaning, req, unique_id, issued, dirs, files, storage, tasks, mesh, urls>>

\* 2. trimesh.load_mesh and process_mesh, inside the inner try.
LoadProcess(r) ==
    /\ pc[r] = "load"
    /\ stages' = [stages EXCEPT ![r] = Append(@, "load")]
    /\ touched' = [touched EXCEPT ![r] = @ \cup {input_glb_path(unique_id[r])}]
    /\ \E out \in LoadOutcomes, passes_ok \in BOOLEAN :
        IF out.kind = "raise" \/ ~Exists(input_glb_path(unique_id[r]))
        THEN /\ LET e == Exc("Exception", 0, "cannot load file")
                    h == LoadHandler(e)
                IN Raise(r, <<e, h>>, OuterHandler(h))
             /\ mesh' = mesh
        ELSE LET res == process_mesh(out, req[r].optimize_mesh, passes_ok) IN
             IF res.chain # <<>>
             THEN /\ LET h == LoadHandler(Last(res.chain))
                     IN Raise(r, Append(res.chain, h), OuterHandler(h))
                  /\ mesh' = mesh
             ELSE /\ mesh' = [mesh EXCEPT ![r] = res.mesh]
                  /\ Advance(r, "load")
    /\ UNCHANGED <<cleaning, req, unique_id, issued, dirs, files, storage, tasks, urls>>

\* 3. mesh.export and the check of the exported file; in direct delivery
\* the endpoint then returns the FileResponse.
Export(r) ==
    /\ pc[r] = "export"
    /\ stages' = [stages EXCEPT ![r] = Append(@, "export")]
    /\ touched' = [touched EXCEPT ![r] = @ \cup {output_file_path(unique_id[r])}]
    /\ \E out \in {"raise", "empty", "bytes"} :
        CASE out = "raise" \/ unique_id[r] \notin dirs ->
                /\ LET e == Exc("Exception", 0, "export failed")
                       h == ExportHandler(e)
                   IN Raise(r, <<e, h>>, OuterHandler(h))
                /\ files' = files
          [] out = "empty" ->
                /\ LET e == Exc("ValueError", 0, "STL export failed or produced an empty file.")
                       h == ExportHandler(e)
                   IN Raise(r, <<e, h>>, OuterHandler(h))
                /\ files' = WriteFile(output_file_path(unique_id[r]), "empty")
          [] OTHER ->
                /\ files' = WriteFile(output_file_path(unique_id[r]), "bytes")
                /\ IF NextStage("export", req[r].store_in_firebase) = "responded"
                   THEN Return(r, FileResponse(output_file_path(unique_id[r]), tasks[r]))
                   ELSE Advance(r, "export")
    /\ UNCHANGED <<cleaning, req, unique_id, issued, dirs, storage, tasks, mesh, urls>>

\* upload_to_firebase as it would be if a failure deleted the request's blobs.
upload_to_firebase_rollback(file_path, file_type, id, out) ==
    LET blob == BlobName(file_path, file_type, id)
        e == Exc("Exception", 0, "storage error")
    IN IF out \in {"upload_fails", "sign_fails"}
       THEN [storage |-> {b \in storage : b[2] # id}, url |-> NoUrl,
             chain |-> <<e, UploadHandler(e, file_type)>>]
       ELSE [storage |-> storage \cup {blob}, url |-> SignedUrl(blob), chain |-> <<>>]

\* upload_to_firebase(file_path, file_type, unique_id): what it does to
\* the bucket and what it ends with, for an outcome of the storage calls
\* ("upload_fails", "sign_fails" after the blob is stored, or "ok").
upload_to_firebase(file_path, file_type, id, out) ==
    LET blob == BlobName(file_path, file_type, id)
        e == Exc("Exception", 0, "storage error")
    IN CASE out = "upload_fails" ->
              [storage |-> storage, url |-> NoUrl, chain |-> <<e, UploadHandler(e, file_type)>>]
         [] out = "sign_fails" ->
              [storage |-> storage \cup {blob}, url |-> NoUrl,
               chain |-> <<e, UploadHandler(e, file_type)>>]
         [] OTHER ->
              [storage |-> storage \cup {blob}, url |-> SignedUrl(blob), chain |-> <<>>]

UploadOutcomes == {"upload_fails", "sign_fails", "ok"}

\* 4a. glb_storage_url = upload_to_firebase(input_glb_path, "glb", unique_id)
UploadGlb(r) ==
    /\ pc[r] = "upload_glb"
    /\ stages' = [stages EXCEPT ![r] = Append(@, "upload_glb")]
    /\ touched' = [touched EXCEPT ![r] = @ \cup {input_glb_path(unique_id[r])}]
    /\ \E out \in UploadOutcomes :
        LET res == upload_to_firebase(input_glb_path(unique_id[r]), "glb", unique_id[r],
                                      IF Exists(input_glb_path(unique_id[r]))
                                      THEN out ELSE "upload_fails")
        IN /\ storage' = res.storage
           /\ IF res.chain # <<>>
              THEN /\ Raise(r, res.chain, OuterHandler(Last(res.chain)))
                   /\ urls' = urls
              ELSE /\ urls' = [urls EXCEPT ![r].glb = res.url]
                   /\ Advance(r, "upload_glb")
    /\ UNCHANGED <<cleaning, req, unique_id, issued, dirs, files, tasks, mesh>>

\* 4b. stl_storage_url = upload_to_firebase(output_file_path, "stl", unique_id),
\* stl_download_url = stl_storage_url, and the endpoint returns the
\* ConversionResponse.
UploadStl(r) ==
    /\ pc[r] = "upload_stl"
    /\ stages' = [stages EXCEPT ![r] = Append(@, "upload_stl")]
    /\ touched' = [touched EXCEPT ![r] = @ \cup {output_file_path(unique_id[r])}]
    /\ \E out \in UploadOutcomes :
        LET res == upload_to_firebase(output_file_path(unique_id[r]), "stl", unique_id[r],
                                      IF Exists(output_file_path(unique_id[r]))
                                      THEN out ELSE "upload_fails")
        IN /\ storage' = res.storage
           /\ IF res.chain # <<>>
              THEN /\ Raise(r, res.chain, OuterHandler(Last(res.chain)))
                   /\ urls' = urls
              ELSE /\ urls' = [urls EXCEPT ![r].stl = res.url]
                   /\ Return(r, ConversionResponse(res.url, urls[r].glb, res.url, tasks[r]))
    /\ UNCHANGED <<cleaning, req, unique_id, issued, dirs, files, tasks, mesh>>

\* After the response is sent the framework runs the background tasks
\* attached to it.  An error response carries none and the request is
\* over; otherwise cleanup_files(paths) starts, in a worker thread, so its
\* steps interleave with those of other requests.
RunBackground(r) ==
    /\ pc[r] = "responded"
    /\ IF response[r].background = <<>> \/ response[r].background[1] = {}
       THEN /\ pc' = [pc EXCEPT ![r] = "done"]
            /\ cleaning' = cleaning
       ELSE /\ pc' = [pc EXCEPT ![r] = "cleanup"]
            /\ cleaning' = [cleaning EXCEPT ![r] = response[r].background[1]]
    /\ UNCHANGED <<req, unique_id, issued, dirs, files, storage, tasks, mesh, urls, response,
                   sent, stages, exc, touched>>

\* cleanup_files is through with path d: the loop goes on to the next
\* path, or the task returns and the request is over.
PathHandled(r, d) ==
    /\ cleaning' = [cleaning EXCEPT ![r] = @ \ {d}]
    /\ pc' = [pc EXCEPT ![r] = IF cleaning[r] = {d} THEN "done" ELSE "cleanup"]
    /\ touched' = [touched EXCEPT ![r] = @ \cup {DirPath(d)}]

\* shutil.rmtree(path) unlinks one entry of the directory.
RmTreeEntry(r) ==
    /\ pc[r] = "cleanup"
    /\ \E d \in cleaning[r] \cap dirs :
        \E f \in Entries(d) :
            /\ files' = files \ {f}
            /\ touched' = [touched EXCEPT ![r] = @ \cup {DirPath(d)}]
    /\ UNCHANGED <<pc, cleaning, req, unique_id, issued, dirs, storage, tasks, mesh, urls,
                   response, sent, stages, exc>>

\* The path is handled without an error: it does not exist, or rmtree has
\* emptied the directory and removes it.
RmTreeDone(r) ==
    /\ pc[r] = "cleanup"
    /\ \E d \in cleaning[r] :
        /\ d \in dirs => Entries(d) = {}
        /\ dirs' = dirs \ {d}
        /\ PathHandled(r, d)
    /\ UNCHANGED <<req, unique_id, issued, files, storage, tasks, mesh, urls, response, sent,
                   stages, exc>>

\* rmtree raises, before or after any of its unlinks: the except clause
\* logs it and what is left of the directory stays.
RmTreeFails(r) ==
    /\ pc[r] = "cleanup"
    /\ \E d \in cleaning[r] \cap dirs : PathHandled(r, d)
    /\ UNCHANGED <<req, unique_id, issued, dirs, files, storage, tasks, mesh, urls, response,
                   sent, stages, exc>>

\* cleanup_files(paths), step by step.
cleanup_files(r) == RmTreeEntry(r) \/ RmTreeDone(r) \/ RmTreeFails(r)

\* ------------------------------------------------------- specifications
Step(r, inputs) ==
    \/ Receive(r, inputs)
    \/ DownloadStart(r)
    \/ DownloadFinish(r)
    \/ CheckFile(r)
    \/ LoadProcess(r)
    \/ Export(r)
    \/ UploadGlb(r)
    \/ UploadStl(r)
    \/ RunBackground(r)
    \/ cleanup_files(r)

\* One request at a time, over every request body.
Next == Step(1, ConversionRequest)

Spec == Init /\ [][Next]_vars

\* Requests in flight together, interleaved step by step.
ConcNext == \E r \in Reqs : Step(r, ConcurrentRequests)

ConcSpec == Init /\ [][ConcNext]_vars

\* ------------------------------------------------------ shared vocabulary
Arrived(r) == pc[r] # "idle"

\* The response has been produced.
Ended(r) == pc[r] \in {"responded", "cleanup", "done"}

InPipeline(r) ==
    pc[r] \in {"download", "fetching", "check", "load", "export", "upload_glb", "upload_stl"}

Attempted(r, stage) == \E i \in DOMAIN stages[r] : stages[r][i] = stage

Failed(r) == exc[r] # <<>>

\* The blobs the request's two uploads store.
GlbBlob(r) == BlobName(input_glb_path(unique_id[r]), "glb", unique_id[r])

StlBlob(r) == BlobName(output_file_path(unique_id[r]), "stl", unique_id[r])

\* ------------------------------------------------------------------- C1
\* C1: a request whose output_format, lower-cased, is neither stl nor obj
\* is answered 400 and no stage, so no download, ever runs for it: it gets
\* no workspace and nothing is fetched.
C1_InvalidFormatRejectedBeforeFetch ==
    \A r \in Reqs :
        (Arrived(r) /\ Lower(req[r].output_format) \notin {STL, OBJ})
        => /\ response[r].status = 400
           /\ Ended(r)
           /\ ~Attempted(r, "download")
           /\ stages[r] = <<>>
           /\ unique_id[r] = 0

C1_Witness ==
    \E r \in Reqs :
        /\ req[r].output_format = <<"p", "l", "y">>
        /\ pc[r] = "done"
        /\ response[r].status = 400

\* ------------------------------------------------------------------- C2
\* C2 as stated: a request for obj (any letter case) is not rejected as an
\* invalid format, as a request for stl is not.
C2_ObjAcceptedLikeStl ==
    \A r \in Reqs :
        (Arrived(r) /\ Lower(req[r].output_format) \in {STL, OBJ})
        => response[r] # ErrorResponse(FormatRejection)

\* C2 amended: only stl (any letter case) is supported.  A request for obj
\* is answered with the 400 format rejection before any stage runs; a
\* request for stl is never answered 400, and when none of its stages
\* fails it went through download, load and export and ends with a 200.
C2_OnlyStlSupported ==
    \A r \in Reqs :
        /\ (Arrived(r) /\ Lower(req[r].output_format) = OBJ)
           => (response[r] = ErrorResponse(FormatRejection) /\ stages[r] = <<>>)
        /\ (Arrived(r) /\ Lower(req[r].output_format) = STL)
           => /\ response[r].status # 400
              /\ (Ended(r) /\ ~Failed(r))
                 => /\ response[r].status = 200
                    /\ Attempted(r, "download")
                    /\ Attempted(r, "load")
                    /\ Attempted(r, "export")
        /\ response[r].status = 200 => Lower(req[r].output_format) = STL

C2_Witness ==
    \E r \in Reqs :
        /\ req[r].output_format = <<"S", "T", "L">>
        /\ pc[r] = "done"
        /\ response[r].status = 200
        /\ Attempted(r, "export")

\* ------------------------------------------------------------------- C3
\* C3: whatever the outcome, a request that created a workspace has ended
\* only with that workspace removed from disk.
C3_WorkspaceRemovedAtEnd ==
    \A r \in Reqs :
        (pc[r] = "done" /\ unique_id[r] # 0) => unique_id[r] \notin dirs

\* ------------------------------------------------------------------- C4
TimedOut(r) == Failed(r) /\ exc[r][1].type = "TimeoutException"

\* C4 as stated: a fetch that times out ends the request with status 504.
C4_TimeoutIs504 ==
    \A r \in Reqs : (Ended(r) /\ TimedOut(r)) => response[r].status = 504

\* C4 amended: a fetch that times out ends the request with status 500 and
\* the download-failure detail that every httpx.RequestError gets (there
\* is no separate timeout kind), never with another status.
C4_TimeoutIs500 ==
    \A r \in Reqs :
        TimedOut(r)
        => /\ Ended(r)
           /\ response[r].status = 500
           /\ response[r].kind = "error"
           /\ response[r].detail = "Failed to download GLB file from URL"
           /\ stages[r] = <<"download">>

C4_Witness ==
    \E r \in Reqs : TimedOut(r) /\ pc[r] = "done" /\ response[r].status = 500

\* ------------------------------------------------------------------- C5
FetchFailedNoTimeout(r) ==
    Failed(r) /\ exc[r][1].type \in {"ConnectError", "HTTPStatusError"}

EmptyBody(r) ==
    /\ Failed(r)
    /\ stages[r] = <<"download", "check">>
    /\ IsEmpty(input_glb_path(unique_id[r]))

\* C5 as stated: a fetch that fails other than by timeout ends the request
\* with status 502, a status an empty downloaded body (500) does not get.
C5_FetchFailureIs502 ==
    \A r \in Reqs :
        (Ended(r) /\ FetchFailedNoTimeout(r)) => response[r].status = 502

\* C5 amended: a fetch that fails other than by timeout ends the request
\* with status 500 and a detail naming the fetch failure; an empty
\* downloaded body gets the same status 500 and is told apart only by its
\* own detail.
C5_FetchFailureIs500 ==
    \A r \in Reqs :
        /\ FetchFailedNoTimeout(r)
           => /\ Ended(r)
              /\ response[r].status = 500
              /\ response[r].detail =
                    (IF exc[r][1].type = "ConnectError"
                     THEN "Failed to download GLB file from URL"
                     ELSE "An unexpected error occurred while fetching the GLB")
        /\ EmptyBody(r)
           => /\ response[r].status = 500
              /\ response[r].detail = "Failed to download GLB file or file is empty."

C5_Witness ==
    \E r \in Reqs :
        /\ Failed(r)
        /\ exc[r][1].type = "HTTPStatusError"
        /\ exc[r][1].status = 404
        /\ pc[r] = "done"
        /\ response[r].status = 500

\* ------------------------------------------------------------------- C6
\* load_mesh gave a scene without geometry: process_mesh raised its ValueError.
EmptyScene(r) == Failed(r) /\ exc[r][1] = EmptySceneError

\* C6 as stated: a scene with zero geometries ends the request with 400.
C6_EmptySceneIs400 ==
    \A r \in Reqs : (Ended(r) /\ EmptyScene(r)) => response[r].status = 400

\* C6 amended: a scene with zero geometries ends the request with status
\* 500 (detail "Failed to process GLB model"), whatever the optimize and
\* persist flags; no export and no upload is performed.
C6_EmptySceneIs500 ==
    \A r \in Reqs :
        EmptyScene(r)
        => /\ Ended(r)
           /\ response[r].status = 500
           /\ response[r].detail = "Failed to process GLB model"
           /\ stages[r] = <<"download", "check", "load">>
           /\ ~Attempted(r, "export")
           /\ ~Attempted(r, "upload_glb")
           /\ ~Attempted(r, "upload_stl")
           /\ ~Exists(output_file_path(unique_id[r]))
           /\ GlbBlob(r) \notin storage
           /\ StlBlob(r) \notin storage

C6_Witness ==
    \E r \in Reqs :
        /\ EmptyScene(r)
        /\ req[r].optimize_mesh = "false"
        /\ req[r].store_in_firebase = "true"
        /\ pc[r] = "done"
        /\ response[r].status = 500

\* ------------------------------------------------------------------- C7
\* C7: with store_in_firebase false nothing is ever uploaded and a 200 is
\* the exported file; with store_in_firebase true a 200 comes only after
\* both blobs are stored and carries the signed URLs (stl_download_url
\* equal to stl_storage_url, glb_storage_url set), never a file body.
C7_DeliveryModes ==
    \A r \in Reqs :
        /\ req[r].store_in_firebase = "false"
           => /\ ~Attempted(r, "upload_glb")
              /\ ~Attempted(r, "upload_stl")
              /\ unique_id[r] # 0 => (GlbBlob(r) \notin storage /\ StlBlob(r) \notin storage)
              /\ response[r].status = 200
                 => /\ response[r].kind = "file"
                    /\ response[r].path = output_file_path(unique_id[r])
                    /\ response[r].stl_download_url = NoUrl
                    /\ response[r].glb_storage_url = NoUrl
                    /\ response[r].stl_storage_url = NoUrl
        /\ (req[r].store_in_firebase = "true" /\ response[r].status = 200)
           => /\ response[r].kind = "json"
              /\ response[r].path = NoPath
              /\ GlbBlob(r) \in storage
              /\ StlBlob(r) \in storage
              /\ stages[r][Len(stages[r]) - 1] = "upload_glb"
              /\ Last(stages[r]) = "upload_stl"
              /\ response[r].stl_storage_url = SignedUrl(StlBlob(r))
              /\ response[r].stl_download_url = response[r].stl_storage_url
              /\ response[r].glb_storage_url = SignedUrl(GlbBlob(r))
              /\ response[r].glb_storage_url # NoUrl

C7_Witness ==
    \E r \in Reqs :
        /\ req[r].store_in_firebase = "true"
        /\ response[r].status = 200
        /\ response[r].kind = "json"
        /\ pc[r] = "done"

\* ------------------------------------------------------------------- C8
OutputUploadFailed(r) ==
    Failed(r) /\ stages[r] # <<>> /\ Last(stages[r]) = "upload_stl"

\* C8: the output upload is attempted only right after the input upload
\* has succeeded (its blob stored and its URL obtained); when the output
\* upload then fails the request ends with 500 and the input blob is
\* still in the bucket.
C8_SequentialUploadsNoRollback ==
    \A r \in Reqs :
        /\ (pc[r] = "upload_stl" \/ Attempted(r, "upload_stl"))
           => /\ \E i \in DOMAIN stages[r] :
                    /\ stages[r][i] = "upload_glb"
                    /\ \A j \in DOMAIN stages[r] : stages[r][j] = "upload_stl" => j = i + 1
              /\ GlbBlob(r) \in storage
              /\ urls[r].glb = SignedUrl(GlbBlob(r))
        /\ OutputUploadFailed(r)
           => /\ Ended(r)
              /\ response[r].status = 500
              /\ response[r].kind = "error"
              /\ GlbBlob(r) \in storage

C8_Witness ==
    \E r \in Reqs :
        /\ OutputUploadFailed(r)
        /\ pc[r] = "done"
        /\ StlBlob(r) \notin storage
        /\ GlbBlob(r) \in storage

\* ------------------------------------------------------------------- C9
\* The stages in the order the claim fixes.
Pipeline(persist) ==
    IF persist = "true"
    THEN <<"download", "check", "load", "export", "upload_glb", "upload_stl">>
    ELSE <<"download", "check", "load", "export">>

\* The stage an error detail of the try block names.
StageOfDetail(detail) ==
    CASE detail \in {"Failed to download GLB file from URL",
                     "An unexpected error occurred while fetching the GLB"} -> "download"
      [] detail = "Failed to download GLB file or file is empty." -> "check"
      [] detail = "Failed to process GLB model" -> "load"
      [] detail = "Failed to export model to STL" -> "export"
      [] detail = "Failed to upload glb to Firebase" -> "upload_glb"
      [] detail = "Failed to upload stl to Firebase" -> "upload_stl"
      [] OTHER -> "none"

\* C9: the stages a request attempted are an initial part of the fixed
\* order, each once; a failure ends the request at the stage that failed,
\* with exactly one response, an error; and every HTTPException raised on
\* the way has the status the response reports.
C9_NoRetryFixedOrder ==
    \A r \in Reqs :
        /\ Len(stages[r]) <= Len(Pipeline(req[r].store_in_firebase))
        /\ stages[r] = SubSeq(Pipeline(req[r].store_in_firebase), 1, Len(stages[r]))
        /\ sent[r] = (IF Ended(r) THEN 1 ELSE 0)
        /\ Failed(r)
           => /\ Ended(r)
              /\ response[r].kind = "error"
              /\ stages[r] # <<>> => Last(stages[r]) = StageOfDetail(response[r].detail)
              /\ \A i \in DOMAIN exc[r] :
                    exc[r][i].type = "HTTPException"
                    => exc[r][i].status = response[r].status

C9_Witness ==
    \E r \in Reqs :
        /\ Failed(r)
        /\ Len(exc[r]) = 3
        /\ stages[r] = <<"download", "check", "load">>
        /\ pc[r] = "done"

\* ------------------------------------------------------------------ C10
FilesOf(r) == {f \in files : f.path.dir = unique_id[r]}

\* C10: in every interleaving a request touches only paths of its own
\* workspace, and a step of one request leaves the workspace and the files
\* of every other request that is still in progress as they were.
C10_WorkspaceIsolation ==
    /\ [](\A r \in Reqs : \A p \in touched[r] : p.dir = unique_id[r])
    /\ [](\A r, q \in Reqs : (r # q /\ unique_id[r] # 0) => unique_id[r] # unique_id[q])
    /\ [][\A r \in Reqs :
            ((InPipeline(r) \/ pc[r] = "responded") /\ unique_id[r] # 0 /\ pc'[r] = pc[r])
            => /\ FilesOf(r)' = FilesOf(r)
               /\ (unique_id[r] \in dirs) = (unique_id[r] \in dirs')]_vars

C10_Witness ==
    \E r, q \in Reqs :
        /\ r # q
        /\ pc[r] = "done"
        /\ response[r].status = 200
        /\ unique_id[r] \notin dirs
        /\ InPipeline(q)
        /\ Exists(input_glb_path(unique_id[q]))
        /\ unique_id[q] \in dirs
====
